---- MODULE Spec2Model ----
(***************************************************************************)
(* Model of the serde_osc decoders.                                        *)
(*                                                                         *)
(*  - OscDeserializer (serde_osc/src/de.rs): the message decoder, a state  *)
(*    machine Address -> Typestring -> Arguments over a byte reader.       *)
(*  - BundleVisitor / ElemAccessor (src/de/bundle_visitor.rs): the bundle  *)
(*    decoder over a bounded reader (std::io::Take).                       *)
(*                                                                         *)
(* Bytes are naturals 0..255, byte strings are sequences of bytes.         *)
(***************************************************************************)
EXTENDS Integers, Sequences, FiniteSets, TLC

VARIABLES
    target,     \* "msg": an OscDeserializer session; "bundle": a BundleVisitor session
    input,      \* msg: the bytes of the underlying reader (OscDeserializer.read)
    pos,        \* msg: number of bytes of input already consumed
    state,      \* msg: OscDeserializer.state: "Address", "Typestring", "Arguments"
    tags,       \* msg: the type codes left in State::Arguments(iter)
    calls,      \* msg: one record per finished deserialize call, in order
    visited,    \* msg: the visitor callbacks invoked so far, in order
    inner,      \* bundle: the bytes left in the reader under the Take
    limit,      \* bundle: Take::limit(), the bytes left in the bounded region
    bstate,     \* bundle: BundleVisitor.state: "TimeTag", "Elements"
    bpc,        \* bundle: "seq" between BundleVisitor calls, "elems" inside visit_seq(ElemAccessor),
                \*         "timetag" inside visit_seq(IterVisitor)
    bcalls,     \* bundle: one record per finished BundleVisitor::next_element_seed call
    ecalls,     \* bundle: one record per finished ElemAccessor::next_element_seed call
    ttag,       \* bundle: the BundleField::TimeTag((sec, frac)) read, and the bytes it was read from
    ttiter,     \* bundle: the items left in the IterVisitor over the time tag
    ttseen,     \* bundle: what the IterVisitor has handed to the visitor, in order
    dcode,      \* dispatch: the type code handed to parse_arg
    druns       \* dispatch: one record per application of parse_arg to a payload

vars == <<target, input, pos, state, tags, calls, visited,
          inner, limit, bstate, bpc, bcalls, ecalls, ttag, ttiter, ttseen,
          dcode, druns>>

msgVars == <<input, pos, state, tags, calls, visited>>
bundleVars == <<inner, limit, bstate, bpc, bcalls, ecalls, ttag, ttiter, ttseen>>
dispatchVars == <<dcode, druns>>

(***************************************************************************)
(* Bounds of the model.                                                    *)
(***************************************************************************)
MaxChunks == 2      \* generic inputs: number of whole 4-byte chunks
MaxTail == 1        \* generic inputs: bytes after the last whole chunk
MaxCalls == 3       \* deserialize calls per session
MaxArgs == 1        \* arguments of the enumerated well-formed messages
MaxElems == 2       \* elements of the enumerated bundles
MaxBundleCalls == 3 \* BundleVisitor calls per session
MaxIterCalls == 3   \* IterVisitor::next_element_seed calls on one time tag
MaxElemCalls == 2
MaxDispatch == 2    \* payloads one type code is applied to   \* ElemAccessor calls per Elements field

(***************************************************************************)
(* Byte values that the code or the wire format names.                     *)
(***************************************************************************)
CH_i == 105
CH_f == 102
CH_s == 115
CH_b == 98
CH_a == 97
CH_o == 111
CH_slash == 47
CH_comma == 44

Min(a, b) == IF a < b THEN a ELSE b

Drop(s, n) == SubSeq(s, n + 1, Len(s))

FirstN(s, n) == SubSeq(s, 1, n)

RECURSIVE Flatten(_)
Flatten(ss) == IF ss = <<>> THEN <<>> ELSE Head(ss) \o Flatten(Tail(ss))

RECURSIVE SeqsUpTo(_, _)
\* all sequences over S of length 0..n
SeqsUpTo(S, n) ==
    IF n = 0 THEN {<<>>}
    ELSE LET shorter == SeqsUpTo(S, n - 1)
         IN  shorter \cup {Append(q, x) : q \in {t \in shorter : Len(t) = n - 1}, x \in S}

(***************************************************************************)
(* Results.  Every record has the same fields so that records compare.     *)
(***************************************************************************)
NoVal == [kind |-> "none", int |-> 0, bytes |-> <<>>]
NoErr == [kind |-> "none", code |-> 0]
NoTimeTag == [sec |-> 0, frac |-> 0, raw |-> <<>>, limit0 |-> 0]

OscArg_i(n) == [kind |-> "i", int |-> n, bytes |-> <<>>]
OscArg_f(bits) == [kind |-> "f", int |-> bits, bytes |-> <<>>]
OscArg_s(str) == [kind |-> "s", int |-> 0, bytes |-> str]
OscArg_b(blob) == [kind |-> "b", int |-> 0, bytes |-> blob]

Error_Io == [kind |-> "Io", code |-> 0]
Error_BadPadding == [kind |-> "BadPadding", code |-> 0]
Error_ArgMiscount == [kind |-> "ArgMiscount", code |-> 0]
Error_StrParseError == [kind |-> "StrParseError", code |-> 0]
Error_UnknownType(c) == [kind |-> "UnknownType", code |-> c]

\* status is "ok", "err" or "panic" (unimplemented!()); p is the reader position after
Ok(v, p) == [status |-> "ok", val |-> v, err |-> NoErr, pos |-> p]
Err(e, p) == [status |-> "err", val |-> NoVal, err |-> e, pos |-> p]
Panic(p) == [status |-> "panic", val |-> NoVal, err |-> NoErr, pos |-> p]

(***************************************************************************)
(* The reader.  read_exact fills the buffer or fails; on a short read the  *)
(* number of bytes consumed is unspecified by std::io::Read: eofc chooses  *)
(* between the two behaviours of the standard readers (nothing consumed,   *)
(* everything consumed).                                                   *)
(***************************************************************************)
read_exact(s, p, n, eofc) ==
    IF p + n <= Len(s)
    THEN Ok([kind |-> "buf", int |-> 0, bytes |-> SubSeq(s, p + 1, p + n)], p + n)
    ELSE Err(Error_Io, IF eofc THEN Len(s) ELSE p)

\* big-endian two's complement 32-bit integer
be_i32(b) ==
    (IF b[1] >= 128 THEN b[1] - 256 ELSE b[1]) * 16777216
        + b[2] * 65536 + b[3] * 256 + b[4]

\* big-endian unsigned 32-bit integer
be_u32(b) == b[1] * 16777216 + b[2] * 65536 + b[3] * 256 + b[4]

num_zeros(buf) == Cardinality({k \in 1..Len(buf) : buf[k] = 0})

ChunkAtPos(s, p) == SubSeq(s, p + 1, p + 4)

HasNullByte(buf) == \E k \in 1..Len(buf) : buf[k] = 0

(***************************************************************************)
(* OscDeserializer: the message decoder.                                   *)
(***************************************************************************)

\* bad_padding with the slice starting one byte late
bad_padding_late(buf) ==
    \E k \in (4 - num_zeros(buf) + 2)..4 : buf[k] # 0

\* the padding test of one chunk: a non-null byte among the last num_zeros bytes
bad_padding(buf) ==
    \E k \in (4 - num_zeros(buf) + 1)..4 : buf[k] # 0

RECURSIVE read_0term_loop(_, _, _, _)

\* read_0term_match with a `break` after the chunk that holds a null: the read
\* returns Ok(data)
read_0term_match_breaks(s, r, data, eofc) ==
    IF r.status # "ok" THEN Err(Error_Io, r.pos)
    ELSE IF bad_padding(r.val.bytes) THEN Err(Error_BadPadding, r.pos)
    ELSE IF num_zeros(r.val.bytes) > 0
    THEN Ok([kind |-> "bytes", int |-> 0,
             bytes |-> data \o SubSeq(r.val.bytes, 1, 4 - num_zeros(r.val.bytes))],
            r.pos)
    ELSE read_0term_loop(s, r.pos, data \o r.val.bytes, eofc)

\* the body of the `while true` loop on the result r of read_exact: the loop has
\* no break, so it is left only by a return Err
read_0term_match(s, r, data, eofc) ==
    IF r.status # "ok" THEN Err(Error_Io, r.pos)
    ELSE IF bad_padding(r.val.bytes) THEN Err(Error_BadPadding, r.pos)
    ELSE read_0term_loop(s, r.pos,
                         data \o SubSeq(r.val.bytes, 1, 4 - num_zeros(r.val.bytes)),
                         eofc)

read_0term_loop(s, p, data, eofc) ==
    read_0term_match(s, read_exact(s, p, 4, eofc), data, eofc)

read_0term_bytes(s, p, eofc) == read_0term_loop(s, p, <<>>, eofc)

IsCont(c) == c >= 128 /\ c <= 191

RECURSIVE from_utf8(_)
\* String::from_utf8: TRUE iff the bytes are well-formed UTF-8
from_utf8(b) ==
    IF b = <<>> THEN TRUE
    ELSE LET c == b[1]
             n == Len(b)
         IN  IF c < 128 THEN from_utf8(Drop(b, 1))
             ELSE IF c >= 194 /\ c <= 223
                  THEN n >= 2 /\ IsCont(b[2]) /\ from_utf8(Drop(b, 2))
             ELSE IF c >= 224 /\ c <= 239
                  THEN /\ n >= 3
                       /\ IsCont(b[2]) /\ IsCont(b[3])
                       /\ (c = 224 => b[2] >= 160)
                       /\ (c = 237 => b[2] <= 159)
                       /\ from_utf8(Drop(b, 3))
             ELSE IF c >= 240 /\ c <= 244
                  THEN /\ n >= 4
                       /\ IsCont(b[2]) /\ IsCont(b[3]) /\ IsCont(b[4])
                       /\ (c = 240 => b[2] >= 144)
                       /\ (c = 244 => b[2] <= 143)
                       /\ from_utf8(Drop(b, 4))
             ELSE FALSE

\* String::from_utf8(bytes).map_err(StrParseError) on the result r of the token read
parse_str_utf8(r) ==
    IF r.status # "ok" THEN r
    ELSE IF from_utf8(r.val.bytes) THEN Ok(OscArg_s(r.val.bytes), r.pos)
    ELSE Err(Error_StrParseError, r.pos)

parse_str(s, p, eofc) == parse_str_utf8(read_0term_bytes(s, p, eofc))

\* the bytes of the token, comma included, as the iterator's content
parse_typetag(s, p, eofc) == read_0term_bytes(s, p, eofc)

parse_i32(s, p, eofc) ==
    LET r == read_exact(s, p, 4, eofc)
    IN  IF r.status # "ok" THEN Err(Error_Io, r.pos)
        ELSE Ok(OscArg_i(be_i32(r.val.bytes)), r.pos)

\* the float is kept as its 32 bits
parse_f32(s, p, eofc) ==
    LET r == read_exact(s, p, 4, eofc)
    IN  IF r.status # "ok" THEN Err(Error_Io, r.pos)
        ELSE Ok(OscArg_f(be_i32(r.val.bytes)), r.pos)

\* unimplemented!()
parse_blob(s, p, eofc) == Panic(p)

None == [some |-> FALSE, c |-> 0]
Some(c) == [some |-> TRUE, c |-> c]

\* Iterator::next on the type codes
iter_next(tg) == IF tg = <<>> THEN None ELSE Some(Head(tg))
iter_rest(tg) == IF tg = <<>> THEN <<>> ELSE Tail(tg)

\* parse_arg with the f arm calling parse_i32
parse_arg_f_as_i(s, p, typecode, eofc) ==
    IF ~typecode.some THEN Err(Error_ArgMiscount, p)
    ELSE IF typecode.c = CH_i THEN parse_i32(s, p, eofc)
    ELSE IF typecode.c = CH_f THEN parse_i32(s, p, eofc)
    ELSE IF typecode.c = CH_s THEN parse_str(s, p, eofc)
    ELSE IF typecode.c = CH_b THEN parse_blob(s, p, eofc)
    ELSE Err(Error_UnknownType(typecode.c), p)

parse_arg(s, p, typecode, eofc) ==
    IF ~typecode.some THEN Err(Error_ArgMiscount, p)
    ELSE IF typecode.c = CH_i THEN parse_i32(s, p, eofc)
    ELSE IF typecode.c = CH_f THEN parse_f32(s, p, eofc)
    ELSE IF typecode.c = CH_s THEN parse_str(s, p, eofc)
    ELSE IF typecode.c = CH_b THEN parse_blob(s, p, eofc)
    ELSE Err(Error_UnknownType(typecode.c), p)

\* parse_next_address with the state set before the `?`
parse_next_address_sets_first(r, st, tg) ==
    [res |-> r, state |-> "Typestring", tags |-> tg]

\* State::Address on the result r of parse_str: `?`, then advance to Typestring
parse_next_address(r, st, tg) ==
    [res |-> r,
     state |-> IF r.status = "ok" THEN "Typestring" ELSE st,
     tags |-> tg]

\* State::Typestring on the result a of parse_arg(tags.next()): `?`, then advance
\* to Arguments with the rest of the codes
parse_next_first(a, codes, st, tg) ==
    IF a.status = "ok"
    THEN [res |-> a, state |-> "Arguments", tags |-> iter_rest(codes)]
    ELSE [res |-> a, state |-> st, tags |-> tg]

\* State::Typestring on the result t of parse_typetag
parse_next_typestring(s, t, st, tg, eofc) ==
    IF t.status # "ok"
    THEN [res |-> t, state |-> st, tags |-> tg]
    ELSE parse_next_first(parse_arg(s, t.pos, iter_next(t.val.bytes), eofc),
                          t.val.bytes, st, tg)

\* [res, state, tags]: the result and the decoder's state after the call
parse_next(s, p, st, tg, eofc) ==
    IF st = "Address"
    THEN parse_next_address(parse_str(s, p, eofc), st, tg)
    ELSE IF st = "Typestring"
    THEN parse_next_typestring(s, parse_typetag(s, p, eofc), st, tg, eofc)
    ELSE [res |-> parse_arg(s, p, iter_next(tg), eofc),
          state |-> st,
          tags |-> iter_rest(tg)]

\* the visitor callback that deserialize invokes for a value
visit_of(v) ==
    IF v.kind = "i" THEN "visit_i32"
    ELSE IF v.kind = "f" THEN "visit_f32"
    ELSE IF v.kind = "s" THEN "visit_string"
    ELSE "none"

\* the `?` and the match on the result n of parse_next: an error returns at once,
\* a value goes to its callback, a blob is unimplemented!()
deserialize_match(n) ==
    IF n.res.status # "ok"
    THEN [res |-> n.res, state |-> n.state, tags |-> n.tags, visits |-> <<>>]
    ELSE IF n.res.val.kind = "b"
    THEN [res |-> Panic(n.res.pos), state |-> n.state, tags |-> n.tags,
          visits |-> <<>>]
    ELSE [res |-> n.res, state |-> n.state, tags |-> n.tags,
          visits |-> <<[cb |-> visit_of(n.res.val), val |-> n.res.val]>>]

\* deserialize_match handing a default string to the visitor when parse_next fails
deserialize_match_visits_on_error(n) ==
    [res |-> n.res, state |-> n.state, tags |-> n.tags,
     visits |-> <<[cb |-> "visit_string", val |-> OscArg_s(<<>>)]>>]

\* deserialize with the visitor called whether or not parse_next failed
deserialize_visits_on_error(s, p, st, tg, eofc) ==
    deserialize_match_visits_on_error(parse_next(s, p, st, tg, eofc))

\* [res, state, tags, visits]: parse_next, then the callback for the value
deserialize(s, p, st, tg, eofc) == deserialize_match(parse_next(s, p, st, tg, eofc))

(***************************************************************************)
(* The wire format of a message (the encoder, module ser).                 *)
(***************************************************************************)

\* a token: the bytes, then 1 to 4 nulls up to a multiple of 4
enc_token(str) ==
    str \o [k \in 1..(4 - (Len(str) % 4)) |-> 0]

enc_i32(n) ==
    <<(n \div 16777216) % 256, (n \div 65536) % 256, (n \div 256) % 256, n % 256>>

\* a blob: length, payload, 0 to 3 nulls up to a multiple of 4
enc_blob(blob) ==
    enc_i32(Len(blob)) \o blob \o [k \in 1..((4 - (Len(blob) % 4)) % 4) |-> 0]

enc_arg(a) ==
    IF a.kind = "i" \/ a.kind = "f" THEN enc_i32(a.int)
    ELSE IF a.kind = "s" THEN enc_token(a.bytes)
    ELSE enc_blob(a.bytes)

code_of(a) ==
    IF a.kind = "i" THEN CH_i
    ELSE IF a.kind = "f" THEN CH_f
    ELSE IF a.kind = "s" THEN CH_s
    ELSE CH_b

enc_message(m) ==
    enc_token(m.address)
        \o enc_token(<<CH_comma>> \o [k \in 1..Len(m.args) |-> code_of(m.args[k])])
        \o Flatten([k \in 1..Len(m.args) |-> enc_arg(m.args[k])])

(***************************************************************************)
(* The inputs of a message session.                                        *)
(***************************************************************************)
Str_foo == <<CH_slash, CH_f, CH_o, CH_o>>
Str_ab == <<CH_slash, CH_a, CH_b>>

Addresses == {Str_foo, Str_ab}

ArgValues ==
    {OscArg_i(42), OscArg_i(-1), OscArg_f(1065353216),
     OscArg_s(<<CH_a, CH_b>>), OscArg_s(<<CH_a, CH_b, CH_a, CH_b>>),
     OscArg_b(<<222, 173, 190>>), OscArg_b(<<222, 173, 190, 239>>)}

Messages == [address : Addresses, args : SeqsUpTo(ArgValues, MaxArgs)]

WellFormedInputs == {enc_message(m) : m \in Messages}

\* type codes that are none of i, f, s, b: 'z'
UnknownCodes == {122}

Payloads == {<<>>, <<0, 0, 0, 42>>, <<CH_a, CH_b, 0, 0>>, <<255>>}

\* a message with the one type code c and the payload pl
enc_raw(a, c, pl) == enc_token(a) \o enc_token(<<CH_comma, c>>) \o pl

\* typestring ",z" with any payload
UnknownTypeInputs ==
    {enc_raw(a, c, pl) : a \in Addresses, c \in UnknownCodes, pl \in Payloads}

GenericBytes == {0, CH_a}

GenericChunks == {q \in SeqsUpTo(GenericBytes, 4) : Len(q) = 4}

GenericInputs ==
    {Flatten(cs) \o tl :
        cs \in SeqsUpTo(GenericChunks, MaxChunks),
        tl \in SeqsUpTo(GenericBytes, MaxTail)}

\* an address, a token that is one unknown code, a token "i" and an integer: 42
\* is an argument past a field that cannot be decoded
SkippableInputs ==
    {enc_token(a) \o enc_token(<<c>>) \o enc_token(<<CH_i>>) \o enc_i32(42) :
        a \in Addresses, c \in UnknownCodes}

MsgInputs ==
    WellFormedInputs \cup UnknownTypeInputs \cup SkippableInputs \cup GenericInputs

(***************************************************************************)
(* A message session: OscDeserializer::new(read), then deserialize calls.  *)
(***************************************************************************)
\* InitMsg with the decoder constructed in State::Typestring
InitMsg_in_typestring ==
    /\ target = "msg"
    /\ input \in MsgInputs
    /\ pos = 0
    /\ state = "Typestring"
    /\ tags = <<>>
    /\ calls = <<>>
    /\ visited = <<>>
    /\ inner = <<>> /\ limit = 0 /\ bstate = "TimeTag" /\ bpc = "seq"
    /\ bcalls = <<>> /\ ecalls = <<>>
    /\ ttag = NoTimeTag /\ ttiter = <<>> /\ ttseen = <<>>
    /\ dcode = None /\ druns = <<>>

InitMsg ==
    /\ target = "msg"
    /\ input \in MsgInputs
    /\ pos = 0
    /\ state = "Address"
    /\ tags = <<>>
    /\ calls = <<>>
    /\ visited = <<>>
    /\ inner = <<>> /\ limit = 0 /\ bstate = "TimeTag" /\ bpc = "seq"
    /\ bcalls = <<>> /\ ecalls = <<>>
    /\ ttag = NoTimeTag /\ ttiter = <<>> /\ ttseen = <<>>
    /\ dcode = None /\ druns = <<>>

Panicked == calls # <<>> /\ calls[Len(calls)].status = "panic"

Deserialize ==
    /\ target = "msg"
    /\ Len(calls) < MaxCalls
    /\ ~Panicked
    /\ \E eofc \in BOOLEAN :
          \E d \in {deserialize(input, pos, state, tags, eofc)} :
              /\ pos' = d.res.pos
              /\ state' = d.state
              /\ tags' = d.tags
              /\ calls' = Append(calls,
                                 [status |-> d.res.status, val |-> d.res.val,
                                  err |-> d.res.err, pos0 |-> pos, pos1 |-> d.res.pos,
                                  state0 |-> state, state1 |-> d.state,
                                  tags0 |-> tags, tags1 |-> d.tags,
                                  visits |-> d.visits])
              /\ visited' = visited \o d.visits
    /\ UNCHANGED <<target, input>>
    /\ UNCHANGED bundleVars
    /\ UNCHANGED dispatchVars

(***************************************************************************)
(* The bounded reader of a bundle: a Take over the bytes `inr` with `lim`  *)
(* bytes left in the region.  A read gets at most min(lim, Len(inr))       *)
(* bytes; a short read fails after consuming what there was.               *)
(***************************************************************************)
take_read_exact(inr, lim, n) ==
    LET avail == Min(lim, Len(inr))
    IN  IF avail >= n
        THEN [ok |-> TRUE, bytes |-> FirstN(inr, n), inner |-> Drop(inr, n), limit |-> lim - n]
        ELSE [ok |-> FALSE, bytes |-> <<>>, inner |-> Drop(inr, avail), limit |-> lim - avail]

\* OscReader::parse_timetag: seconds, then fraction, each a big-endian u32
parse_timetag(inr, lim) ==
    LET a == take_read_exact(inr, lim, 4)
        b == take_read_exact(a.inner, a.limit, 4)
    IN  IF ~a.ok THEN [ok |-> FALSE, sec |-> 0, frac |-> 0, inner |-> a.inner, limit |-> a.limit]
        ELSE IF ~b.ok
        THEN [ok |-> FALSE, sec |-> 0, frac |-> 0, inner |-> b.inner, limit |-> b.limit]
        ELSE [ok |-> TRUE, sec |-> be_u32(a.bytes), frac |-> be_u32(b.bytes),
              inner |-> b.inner, limit |-> b.limit]

(***************************************************************************)
(* PktDeserializer: one size-prefixed packet decoded from the region.      *)
(* Inside the element the bytes `s` are those the sub-region can deliver   *)
(* and p is the read position; a read past Len(s) is an I/O failure.       *)
(***************************************************************************)
Error_MalformedPacket == [kind |-> "MalformedPacket", code |-> 0]
Error_FramingMismatch == [kind |-> "FramingMismatch", code |-> 0]

\* "#bundle"
Str_bundle == <<35, CH_b, 117, 110, 100, 108, 101>>

RECURSIVE read_token_loop(_, _, _)
\* the aligned token reader: stops at the first chunk that holds a null
read_token_loop(s, p, data) ==
    IF p + 4 > Len(s) THEN Err(Error_Io, Len(s))
    ELSE LET buf == ChunkAtPos(s, p)
         IN  IF ~HasNullByte(buf) THEN read_token_loop(s, p + 4, data \o buf)
             ELSE IF bad_padding(buf) THEN Err(Error_BadPadding, p + 4)
             ELSE Ok(OscArg_s(data \o SubSeq(buf, 1, 4 - num_zeros(buf))), p + 4)

read_token(s, p) == read_token_loop(s, p, <<>>)

\* the blob reader: length, payload, null padding up to a multiple of 4
read_blob(s, p) ==
    IF p + 4 > Len(s) THEN Err(Error_Io, Len(s))
    ELSE LET L == be_u32(ChunkAtPos(s, p))
             pad == (4 - (L % 4)) % 4
         IN  IF p + 4 + L + pad > Len(s) THEN Err(Error_Io, Len(s))
             ELSE IF \E k \in (p + 4 + L + 1)..(p + 4 + L + pad) : s[k] # 0
             THEN Err(Error_BadPadding, p + 4 + L + pad)
             ELSE Ok(OscArg_b(SubSeq(s, p + 5, p + 4 + L)), p + 4 + L + pad)

read_arg(s, p, c) ==
    IF c = CH_i \/ c = CH_f
    THEN IF p + 4 > Len(s) THEN Err(Error_Io, Len(s))
         ELSE Ok(OscArg_i(be_i32(ChunkAtPos(s, p))), p + 4)
    ELSE IF c = CH_s THEN read_token(s, p)
    ELSE IF c = CH_b THEN read_blob(s, p)
    ELSE Err(Error_UnknownType(c), p)

RECURSIVE read_args(_, _, _)
\* the arguments of a message, one per type code
read_args(s, p, codes) ==
    IF codes = <<>> THEN Ok(NoVal, p)
    ELSE LET a == read_arg(s, p, Head(codes))
         IN  IF a.status # "ok" THEN a ELSE read_args(s, a.pos, Tail(codes))

\* the message after its address: the typestring, then the arguments
read_message(s, p) ==
    LET t == read_token(s, p)
    IN  IF t.status # "ok" THEN t
        ELSE IF t.val.bytes = <<>> \/ Head(t.val.bytes) # CH_comma
        THEN Err(Error_MalformedPacket, t.pos)
        ELSE read_args(s, t.pos, Tail(t.val.bytes))

RECURSIVE read_packet(_, _)
RECURSIVE read_elems(_, _, _)

\* the elements of a bundle from position q of a region of n declared bytes:
\* size-prefixed packets until the region is used up
read_elems(s, n, q) ==
    IF q >= n THEN Ok(NoVal, q)
    ELSE IF q + 4 > Len(s) THEN Err(Error_Io, Len(s))
    ELSE LET L == be_u32(ChunkAtPos(s, q))
             e == read_packet(SubSeq(s, q + 5, Min(q + 4 + L, Len(s))), L)
         IN  IF e.status # "ok" THEN Err(e.err, q + 4 + e.pos)
             ELSE read_elems(s, n, q + 4 + e.pos)

\* the packet after its leading token: a bundle (time tag, elements) or a message
read_body(s, n, a) ==
    IF a.val.bytes = Str_bundle
    THEN IF a.pos + 8 > Len(s) THEN Err(Error_Io, Len(s))
         ELSE read_elems(s, n, a.pos + 8)
    ELSE IF a.val.bytes # <<>> /\ Head(a.val.bytes) = CH_slash
    THEN read_message(s, a.pos)
    ELSE Err(Error_MalformedPacket, a.pos)

\* a packet in a region of n declared bytes of which the bytes s can be read: the
\* classifier, then the message or the bundle; the region must be used up
read_packet(s, n) ==
    LET a == read_token(s, 0)
    IN  IF a.status # "ok" THEN a
        ELSE LET body == read_body(s, n, a)
             IN  IF body.status # "ok" THEN body
                 ELSE IF body.pos # n THEN Err(Error_FramingMismatch, body.pos)
                 ELSE body

\* PktDeserializer over the bundle's Take: the size prefix, then the packet in a
\* sub-region of that size
pkt_deserialize(inr, lim) ==
    LET h == take_read_exact(inr, lim, 4)
    IN  IF ~h.ok
        THEN [status |-> "err", err |-> Error_Io, inner |-> h.inner, limit |-> h.limit]
        ELSE LET L == be_u32(h.bytes)
                 n == Min(L, h.limit)
                 sub == FirstN(h.inner, Min(n, Len(h.inner)))
                 r == read_packet(sub, L)
             IN  [status |-> r.status, err |-> r.err,
                  inner |-> Drop(h.inner, r.pos), limit |-> h.limit - r.pos]

(***************************************************************************)
(* The regions of a bundle session.                                        *)
(***************************************************************************)
Str_a == <<CH_slash, CH_a>>

TimeTags == {<<0, 0, 0, 1, 0, 0, 0, 0>>, <<0, 0, 0, 0, 0, 0, 1, 0>>}

\* element bodies: "/a" with no argument, "/a" with Int32 42
ElementBodies ==
    {enc_message([address |-> Str_a, args |-> <<>>]),
     enc_message([address |-> Str_a, args |-> <<OscArg_i(42)>>])}

\* elements: the size prefix is the length of the body, or 4 more, or 4 less
Elements ==
    {enc_i32(Len(b) + d) \o b : b \in ElementBodies, d \in {0, 4, -4}}

Regions ==
    {tt \o Flatten(es) : tt \in TimeTags, es \in SeqsUpTo(Elements, MaxElems)}

InitBundle ==
    /\ target = "bundle"
    /\ \E r \in Regions : \E k \in 0..Len(r) :
          /\ inner = FirstN(r, k)
          /\ limit \in {k, Len(r)}
    /\ bstate = "TimeTag"
    /\ bpc = "seq"
    /\ bcalls = <<>>
    /\ ecalls = <<>>
    /\ ttag = NoTimeTag /\ ttiter = <<>> /\ ttseen = <<>>
    /\ dcode = None /\ druns = <<>>
    /\ input = <<>> /\ pos = 0 /\ state = "Address" /\ tags = <<>>
    /\ calls = <<>> /\ visited = <<>>

BCall(ret, field, sec, frac, err, lim0, lim1, st0) ==
    [ret |-> ret, field |-> field, sec |-> sec, frac |-> frac, err |-> err,
     limit0 |-> lim0, limit1 |-> lim1, state0 |-> st0]

\* the items of the time-tag sequence, in the wrong order
timetag_items_swapped(sec, frac) == <<frac, sec>>

\* BundleField::deserialize_any, TimeTag arm: the array [sec, frac] the IterVisitor
\* iterates over
timetag_items(sec, frac) == <<sec, frac>>

\* state_replaced with the state set only after the field has been built: a
\* failed time-tag read leaves the state TimeTag
state_replaced_after_read(st, ok) == IF ok THEN "Elements" ELSE st

\* mem::replace(&mut self.state, State::Elements): the state after the call,
\* whether or not the field could be built (ok)
state_replaced(st, ok) == "Elements"

\* BundleVisitor::next_element_seed, up to the point where the field is handed to
\* the seed.  A TimeTag field hands an IterVisitor over its two items to the
\* visitor (bpc = "timetag"); an Elements field hands it an ElemAccessor, from
\* which it pulls elements (bpc = "elems")
\* until it returns.
BundleNextElementSeed ==
    /\ target = "bundle"
    /\ bpc = "seq"
    /\ Len(bcalls) < MaxBundleCalls
    /\ IF limit = 0
       THEN /\ bcalls' = Append(bcalls,
                                BCall("None", "none", 0, 0, NoErr, limit, limit, bstate))
            /\ UNCHANGED <<inner, limit, bstate, bpc, ttag, ttiter, ttseen>>
       ELSE IF bstate = "TimeTag"
               THEN \E r \in {parse_timetag(inner, limit)} :
                        /\ bstate' = state_replaced(bstate, r.ok)
                        /\ inner' = r.inner
                        /\ limit' = r.limit
                        /\ IF r.ok
                           THEN /\ bpc' = "timetag"
                                /\ ttag' = [sec |-> r.sec, frac |-> r.frac,
                                            raw |-> FirstN(inner, 8), limit0 |-> limit]
                                /\ ttiter' = timetag_items(r.sec, r.frac)
                                /\ ttseen' = <<>>
                                /\ UNCHANGED bcalls
                           ELSE /\ bcalls' = Append(bcalls,
                                        BCall("Err", "none", 0, 0, Error_Io,
                                              limit, r.limit, bstate))
                                /\ UNCHANGED <<bpc, ttag, ttiter, ttseen>>
               ELSE /\ bstate' = state_replaced(bstate, TRUE)
                    /\ bpc' = "elems"
                    /\ UNCHANGED <<inner, limit, bcalls, ttag, ttiter, ttseen>>
    /\ UNCHANGED ecalls
    /\ UNCHANGED <<target>>
    /\ UNCHANGED msgVars
    /\ UNCHANGED dispatchVars

\* the ElemAccessor calls made for the Elements field being visited
CurrentECalls == {k \in 1..Len(ecalls) : ecalls[k].bcall = Len(bcalls) + 1}

ElemFailed == \E k \in CurrentECalls : ecalls[k].ret = "Err"

\* ElemNextElementSeed with the element's error turned into end-of-sequence
\* (`.ok()` in place of `.map(Some)`)
ElemNextElementSeed_ErrorAsNone ==
    /\ target = "bundle"
    /\ bpc = "elems"
    /\ Cardinality(CurrentECalls) < MaxElemCalls
    /\ ~ElemFailed
    /\ \E r \in {pkt_deserialize(inner, limit)} :
           /\ inner' = r.inner
           /\ limit' = r.limit
           /\ ecalls' = Append(ecalls,
                               [ret |-> IF r.status = "ok" THEN "Some" ELSE "None",
                                err |-> NoErr, limit0 |-> limit, limit1 |-> r.limit,
                                inner0 |-> inner, bcall |-> Len(bcalls) + 1])
    /\ UNCHANGED <<bstate, bpc, bcalls, ttag, ttiter, ttseen>>
    /\ UNCHANGED <<target>>
    /\ UNCHANGED msgVars
    /\ UNCHANGED dispatchVars

\* ElemAccessor::next_element_seed: a packet is decoded whatever is left in the
\* region; the result is Some(value) or the error, never None
ElemNextElementSeed ==
    /\ target = "bundle"
    /\ bpc = "elems"
    /\ Cardinality(CurrentECalls) < MaxElemCalls
    /\ ~ElemFailed
    /\ \E r \in {pkt_deserialize(inner, limit)} :
           /\ inner' = r.inner
           /\ limit' = r.limit
           /\ ecalls' = Append(ecalls,
                               [ret |-> IF r.status = "ok" THEN "Some" ELSE "Err",
                                err |-> r.err, limit0 |-> limit, limit1 |-> r.limit,
                                inner0 |-> inner, bcall |-> Len(bcalls) + 1])
    /\ UNCHANGED <<bstate, bpc, bcalls, ttag, ttiter, ttseen>>
    /\ UNCHANGED <<target>>
    /\ UNCHANGED msgVars
    /\ UNCHANGED dispatchVars

\* the visitor's visit_seq over the ElemAccessor returns, and with it
\* BundleVisitor::next_element_seed: Some(value), or the error of the failed element
VisitSeqReturn ==
    /\ target = "bundle"
    /\ bpc = "elems"
    /\ bpc' = "seq"
    /\ bcalls' = Append(bcalls,
          IF ElemFailed
          THEN BCall("Err", "Elements", 0, 0,
                     ecalls[CHOOSE k \in CurrentECalls : ecalls[k].ret = "Err"].err,
                     (IF CurrentECalls = {} THEN limit
                      ELSE ecalls[CHOOSE k \in CurrentECalls :
                                     \A j \in CurrentECalls : k <= j].limit0),
                     limit, "Elements")
          ELSE BCall("Some", "Elements", 0, 0, NoErr,
                     (IF CurrentECalls = {} THEN limit
                      ELSE ecalls[CHOOSE k \in CurrentECalls :
                                     \A j \in CurrentECalls : k <= j].limit0),
                     limit, "Elements"))
    /\ UNCHANGED <<inner, limit, bstate, ecalls, ttag, ttiter, ttseen>>
    /\ UNCHANGED <<target>>
    /\ UNCHANGED msgVars
    /\ UNCHANGED dispatchVars

\* IterVisitor::next_element_seed: the next item of the iterator through a
\* PrimDeserializer (an unsigned 32-bit integer), or None when the iterator is empty
IterNextElementSeed ==
    /\ target = "bundle"
    /\ bpc = "timetag"
    /\ Len(ttseen) < MaxIterCalls
    /\ IF ttiter = <<>>
       THEN /\ ttseen' = Append(ttseen, [ret |-> "None", kind |-> "none", val |-> 0])
            /\ UNCHANGED ttiter
       ELSE /\ ttseen' = Append(ttseen, [ret |-> "Some", kind |-> "u32", val |-> Head(ttiter)])
            /\ ttiter' = Tail(ttiter)
    /\ UNCHANGED <<inner, limit, bstate, bpc, bcalls, ecalls, ttag>>
    /\ UNCHANGED <<target>>
    /\ UNCHANGED msgVars
    /\ UNCHANGED dispatchVars

\* the visitor's visit_seq over the IterVisitor returns, and with it
\* BundleVisitor::next_element_seed: Some(value) for the time-tag field
VisitTimeTagReturn ==
    /\ target = "bundle"
    /\ bpc = "timetag"
    /\ bpc' = "seq"
    /\ bcalls' = Append(bcalls, BCall("Some", "TimeTag", ttag.sec, ttag.frac, NoErr,
                                      ttag.limit0, limit, "TimeTag"))
    /\ UNCHANGED <<inner, limit, bstate, ecalls, ttag, ttiter, ttseen>>
    /\ UNCHANGED <<target>>
    /\ UNCHANGED msgVars
    /\ UNCHANGED dispatchVars

Init == InitMsg \/ InitBundle

Next ==
    \/ Deserialize
    \/ BundleNextElementSeed
    \/ IterNextElementSeed
    \/ VisitTimeTagReturn
    \/ ElemNextElementSeed
    \/ VisitSeqReturn

Spec == Init /\ [][Next]_vars

(***************************************************************************)
(* The argument dispatcher on its own: parse_arg and the match of          *)
(* deserialize are functions of the type code and the bytes at the reader, *)
(* applied here to one type code and several payloads.                     *)
(***************************************************************************)
DispatchCodes == {None} \cup {Some(c) : c \in {CH_i, CH_f, CH_s, CH_b} \cup UnknownCodes}

DispatchPayloads ==
    {<<>>, <<0, 0>>, <<0, 0, 0, 42>>, <<255, 255, 255, 255>>, <<63, 128, 0, 0>>,
     <<CH_a, CH_b, 0, 0>>}

InitDispatch ==
    /\ target = "dispatch"
    /\ dcode \in DispatchCodes
    /\ druns = <<>>
    /\ input = <<>> /\ pos = 0 /\ state = "Address" /\ tags = <<>>
    /\ calls = <<>> /\ visited = <<>>
    /\ inner = <<>> /\ limit = 0 /\ bstate = "TimeTag" /\ bpc = "seq"
    /\ bcalls = <<>> /\ ecalls = <<>>
    /\ ttag = NoTimeTag /\ ttiter = <<>> /\ ttseen = <<>>

\* parse_arg(typecode) on a reader that holds the payload, then the match of
\* deserialize on its result
Dispatch ==
    /\ target = "dispatch"
    /\ Len(druns) < MaxDispatch
    /\ \E pl \in DispatchPayloads : \E eofc \in BOOLEAN :
          \E d \in {deserialize_match([res |-> parse_arg(pl, 0, dcode, eofc),
                                       state |-> "Arguments", tags |-> <<>>])} :
              druns' = Append(druns, [payload |-> pl, status |-> d.res.status,
                                      val |-> d.res.val, err |-> d.res.err,
                                      visits |-> d.visits])
    /\ UNCHANGED <<target, dcode>>
    /\ UNCHANGED msgVars
    /\ UNCHANGED bundleVars

NextDispatch == Dispatch

SpecDispatch == InitDispatch /\ [][NextDispatch]_vars

(***************************************************************************)
(* Properties of the message decoder.                                      *)
(***************************************************************************)

\* the message that a well-formed input encodes
MessageOf(s) == CHOOSE m \in Messages : enc_message(m) = s

\* the values a full decode of message m yields: the address, then the arguments
Expected(m) == <<OscArg_s(m.address)>> \o m.args

Scenario1 == <<CH_slash, CH_f, CH_o, CH_o, 0, 0, 0, 0, CH_comma, CH_i, 0, 0, 0, 0, 0, 42>>
Scenario2 == <<CH_slash, CH_a, CH_b, 0, CH_comma, 0, 0, 0>>

\* C1: on a well-formed message the k-th deserialize call succeeds and yields the
\* k-th of: the address, then the arguments in typestring order (Scenario 1:
\* "/foo", then Int32 42).
C1_WellFormedDecodes ==
    /\ Scenario1 \in WellFormedInputs
    /\ input \in WellFormedInputs =>
          \A k \in 1..Min(Len(calls), Len(Expected(MessageOf(input)))) :
              /\ calls[k].status = "ok"
              /\ calls[k].val = Expected(MessageOf(input))[k]

ChunkAt(s, q) == SubSeq(s, q + 1, q + 4)

HasNull(c) == \E i \in 1..Len(c) : c[i] = 0

NullsAreSuffix(c) == \A i, j \in 1..Len(c) : (i < j /\ c[i] = 0) => c[j] = 0

\* offset of the first whole chunk of s that holds a null byte, -1 if there is none
FirstNullChunk(s) ==
    LET Q == {q \in 0..(Len(s) - 4) : q % 4 = 0 /\ HasNull(ChunkAt(s, q))}
    IN  IF Q = {} THEN -1 ELSE CHOOSE q \in Q : \A r \in Q : q <= r

StartsWithToken(s) ==
    FirstNullChunk(s) >= 0 /\ NullsAreSuffix(ChunkAt(s, FirstNullChunk(s)))

\* the bytes of s before its first null byte
BeforeFirstNull(s) ==
    LET N == {i \in 1..Len(s) : s[i] = 0}
    IN  IF N = {} THEN s ELSE SubSeq(s, 1, (CHOOSE i \in N : \A j \in N : i <= j) - 1)

\* C2: on an input that starts with a validly padded token the token reader returns
\* the bytes before the first null, having consumed exactly the chunks up to and
\* including the first chunk that holds a null.
C2_StopsAtFirstNullChunk ==
    (Len(calls) >= 1 /\ StartsWithToken(input)) =>
        /\ calls[1].status = "ok"
        /\ calls[1].val.bytes = BeforeFirstNull(input)
        /\ calls[1].pos1 = FirstNullChunk(input) + 4

\* C3: the comma of the typestring is no type code: the address is yielded, the
\* first argument has the kind of the code after the comma, and the message with
\* typestring "," yields its address and no unknown-type error.
C3_CommaDiscarded ==
    /\ Scenario2 \in WellFormedInputs
    /\ input \in WellFormedInputs =>
          /\ Len(calls) >= 1 =>
                calls[1].status = "ok" /\ calls[1].val = OscArg_s(MessageOf(input).address)
          /\ (Len(calls) >= 2 /\ Len(MessageOf(input).args) >= 1) =>
                calls[2].val.kind = MessageOf(input).args[1].kind
          /\ \A k \in 1..Len(calls) : calls[k].err.kind # "UnknownType"

\* C4: exactly len(T) arguments decode; the request after the last one fails with
\* ArgMiscount and consumes no byte.
C4_ArgCount ==
    input \in WellFormedInputs =>
        LET n == Len(MessageOf(input).args)
        IN  /\ \A k \in 2..Min(Len(calls), n + 1) : calls[k].status = "ok"
            /\ Len(calls) >= n + 2 =>
                  /\ calls[n + 2].err = Error_ArgMiscount
                  /\ calls[n + 2].pos1 = calls[n + 2].pos0

\* C5: a message with typestring ",z" fails, whatever the payload, with
\* UnknownType('z') on the call for its first argument, which reads no payload byte.
C5_UnknownTypeRejected ==
    \A a \in Addresses, c \in UnknownCodes, pl \in Payloads :
        (input = enc_raw(a, c, pl) /\ Len(calls) >= 2) =>
            /\ calls[1].status = "ok"
            /\ calls[2].err = Error_UnknownType(c)
            /\ calls[2].pos1 = Len(enc_token(a)) + 4

\* the chunk offsets a token read that starts at p0 can reach in s
ChunkOffsets(s, p0) == {q \in p0..(Len(s) - 4) : (q - p0) % 4 = 0}

\* C6: the token reader fails with BadPadding exactly at the first chunk in which a
\* non-null byte follows a null byte, and reads past every chunk whose null bytes
\* form a suffix of the chunk.
C6_PaddingChecked ==
    \A k \in 1..Len(calls) :
        LET c == calls[k]
            offs == ChunkOffsets(input, c.pos0)
            bad == {q \in offs : ~NullsAreSuffix(ChunkAt(input, q))}
        IN  c.state0 = "Address" =>
              IF bad = {}
              THEN c.err.kind # "BadPadding" /\ c.pos1 >= c.pos0 + 4 * Cardinality(offs)
              ELSE /\ c.err.kind = "BadPadding"
                   /\ c.pos1 = (CHOOSE q \in bad : \A r \in bad : q <= r) + 4

\* a chunk with one to three trailing nulls was accepted, the next chunk rejected
C6_Witness ==
    \E k \in 1..Len(calls) :
        /\ calls[k].err.kind = "BadPadding"
        /\ calls[k].pos0 = 0 /\ calls[k].pos1 = 8
        /\ HasNull(ChunkAt(input, 0)) /\ ChunkAt(input, 0)[1] # 0

\* C7: a deserialize call whose parse_next fails returns that error and invokes no
\* visitor callback: callbacks are invoked by successful calls only.
C7_ErrorAborts ==
    /\ \A k \in 1..Len(calls) :
          calls[k].status = "err" =>
              /\ calls[k].visits = <<>>
              /\ calls[k].err.kind \in
                    {"Io", "BadPadding", "UnknownType", "ArgMiscount", "StrParseError"}
    /\ Len(visited) = Cardinality({k \in 1..Len(calls) : calls[k].status = "ok"})

\* two calls have failed, one on padding and one on I/O, and no callback was invoked
C7_Witness ==
    /\ \E k \in 1..Len(calls) : calls[k].err.kind = "BadPadding"
    /\ \E k \in 1..Len(calls) : calls[k].err.kind = "Io"
    /\ visited = <<>>

BlobPad(L) == (4 - (L % 4)) % 4

\* C8: a 'b' argument decodes to its payload, consuming the 4-byte length, the L
\* payload bytes and (4 - L mod 4) mod 4 null pad bytes.
C8_BlobDecodes ==
    (/\ input \in WellFormedInputs
     /\ Len(calls) >= 2
     /\ Len(MessageOf(input).args) >= 1
     /\ MessageOf(input).args[1].kind = "b") =>
        LET blob == MessageOf(input).args[1].bytes
        IN  /\ calls[2].status = "ok"
            /\ calls[2].val = OscArg_b(blob)
            /\ calls[2].pos1 = calls[1].pos1 + 4 + 4 + Len(blob) + BlobPad(Len(blob))

(***************************************************************************)
(* Properties of the bundle decoder.                                       *)
(***************************************************************************)

\* C9: a request for the next element reports end-of-sequence (None) exactly when
\* the region has no byte left, for the bundle's sequence (BundleVisitor) and for
\* its element sequence (ElemAccessor).
C9_EndExactlyWhenExhausted ==
    /\ \A k \in 1..Len(bcalls) : (bcalls[k].limit0 = 0) <=> (bcalls[k].ret = "None")
    /\ \A k \in 1..Len(ecalls) : (ecalls[k].limit0 = 0) <=> (ecalls[k].ret = "None")

\* C10: whatever the region holds, the time tag is yielded before any element
\* field, before any element and before end-of-sequence is reported.
C10_TimeTagFirst ==
    /\ \A k \in 1..Len(bcalls) :
          (bcalls[k].ret = "None" \/ bcalls[k].field = "Elements") =>
              \E j \in 1..(k - 1) : bcalls[j].field = "TimeTag"
    /\ (ecalls # <<>> \/ bpc = "elems") =>
          \E j \in 1..Len(bcalls) : bcalls[j].field = "TimeTag"

IsPrefixOf(a, b) == Len(a) <= Len(b) /\ SubSeq(b, 1, Len(a)) = a

C12_TimeTagIsPair ==
    \A k \in 1..Len(ttseen) :
        /\ k = 1 => ttseen[k] = [ret |-> "Some", kind |-> "u32",
                                 val |-> be_u32(SubSeq(ttag.raw, 1, 4))]
        /\ k = 2 => ttseen[k] = [ret |-> "Some", kind |-> "u32",
                                 val |-> be_u32(SubSeq(ttag.raw, 5, 8))]
        /\ k > 2 => ttseen[k].ret = "None"

\* a visitor has pulled both items of a time tag of 1 second and the end
C12_Witness ==
    /\ Len(ttseen) = 3
    /\ ttag.raw = <<0, 0, 0, 1, 0, 0, 0, 0>>
    /\ ttseen[1].val = 1
    /\ ttseen[3].ret = "None"

\* the calls that read a whole token as the typestring
TypestringReads ==
    {k \in 1..Len(calls) :
        /\ calls[k].state0 = "Typestring"
        /\ parse_typetag(input, calls[k].pos0, TRUE).status = "ok"}

\* the type code that call c took from the iterator, as a sequence of 0 or 1 codes
PoppedBy(c) ==
    IF c.state0 = "Typestring"
    THEN (IF parse_typetag(input, c.pos0, TRUE).status = "ok"
          THEN FirstN(parse_typetag(input, c.pos0, TRUE).val.bytes, 1)
          ELSE <<>>)
    ELSE IF c.state0 = "Arguments" THEN FirstN(c.tags0, 1)
    ELSE <<>>

RECURSIVE PoppedUpTo(_)
PoppedUpTo(k) == IF k = 0 THEN <<>> ELSE PoppedUpTo(k - 1) \o PoppedBy(calls[k])

\* the type codes of message m, left to right
CodesOf(m) == [k \in 1..Len(m.args) |-> code_of(m.args[k])]

\* C13: over the calls made so far the typestring has been read at most once; on
\* a well-formed message the codes popped so far are the first codes of its
\* typestring, each once and in order, and they are all of them once one call
\* per field has been made.
C13_TypestringOnce ==
    /\ Cardinality(TypestringReads) <= 1
    /\ input \in WellFormedInputs =>
          /\ IsPrefixOf(PoppedUpTo(Len(calls)), CodesOf(MessageOf(input)))
          /\ Len(calls) >= 1 + Len(MessageOf(input).args) =>
                 PoppedUpTo(Len(calls)) = CodesOf(MessageOf(input))

Rank(st) == IF st = "Address" THEN 0 ELSE IF st = "Typestring" THEN 1 ELSE 2

\* C14: a message decoder starts in Address, and every call leaves the state
\* where it was or moves it one step along Address, Typestring, Arguments;
\* none moves it back or two steps on.
C14_PhaseOrder ==
    target = "msg" =>
        /\ (IF calls = <<>> THEN state ELSE calls[1].state0) = "Address"
        /\ \A k \in 1..Len(calls) :
              Rank(calls[k].state1) - Rank(calls[k].state0) \in {0, 1}
        /\ \A k \in 1..(Len(calls) - 1) : calls[k + 1].state0 = calls[k].state1

\* two calls have been made on one decoder, bytes have been consumed and the
\* decoder is where it started
C14_Witness ==
    /\ Len(calls) >= 2
    /\ calls[2].pos1 > 0
    /\ calls[2].state1 = "Address"

C18_PhaseAdvancesOnSuccess ==
    \A k \in 1..Len(calls) :
        /\ calls[k].status = "err" => calls[k].state1 = calls[k].state0
        /\ (calls[k].status = "ok" /\ calls[k].state0 = "Address") =>
               calls[k].state1 = "Typestring"
        /\ (calls[k].status = "ok" /\ calls[k].state0 = "Typestring") =>
               calls[k].state1 = "Arguments"

\* a call has consumed bytes, returned an error and left the phase alone
C18_Witness ==
    \E k \in 1..Len(calls) :
        /\ calls[k].status = "err"
        /\ calls[k].pos1 > calls[k].pos0
        /\ calls[k].state1 = calls[k].state0

(***************************************************************************)
(* Properties of the argument dispatcher.                                  *)
(***************************************************************************)

\* the kind and the visitor callback that go with a type code
KindOfCode(c) ==
    IF c = CH_i THEN "i" ELSE IF c = CH_f THEN "f" ELSE IF c = CH_s THEN "s"
    ELSE IF c = CH_b THEN "b" ELSE "none"

CallbackOfKind(k) ==
    IF k = "i" THEN "visit_i32" ELSE IF k = "f" THEN "visit_f32"
    ELSE IF k = "s" THEN "visit_string" ELSE "visit_bytes"

\* C16: any two payloads decoded under the same type code, where both decode,
\* give values of the same kind, the kind of the code (i Int32, f Float32,
\* s Str, b Blob), through the same visitor callback.
C16_KindByCodeOnly ==
    \A j \in 1..Len(druns) : \A k \in 1..Len(druns) :
        (druns[j].status = "ok" /\ druns[k].status = "ok") =>
            /\ druns[j].val.kind = druns[k].val.kind
            /\ druns[j].val.kind = KindOfCode(dcode.c)
            /\ druns[j].visits = <<[cb |-> CallbackOfKind(KindOfCode(dcode.c)),
                                    val |-> druns[j].val]>>
            /\ druns[j].visits[1].cb = druns[k].visits[1].cb

\* two different payloads have both been decoded under one code
C16_Witness ==
    /\ Len(druns) = 2
    /\ druns[1].status = "ok"
    /\ druns[2].status = "ok"
    /\ druns[1].payload # druns[2].payload
    /\ druns[1].val # druns[2].val

\* C17: an address that the message decoder emits begins with '/'; when the
\* input starts with a token that does not begin with '/' and is not the
\* bundle marker, the first call is rejected with the malformed-packet error.
C17_AddressStartsWithSlash ==
    target = "msg" =>
        /\ \A k \in 1..Len(calls) :
              (calls[k].status = "ok" /\ calls[k].state0 = "Address") =>
                  /\ calls[k].val.bytes # <<>>
                  /\ calls[k].val.bytes[1] = CH_slash
        /\ (/\ Len(calls) >= 1
            /\ StartsWithToken(input)
            /\ BeforeFirstNull(input) # Str_bundle
            /\ BeforeFirstNull(input) # <<>>
            /\ BeforeFirstNull(input)[1] # CH_slash) =>
               /\ calls[1].status = "err"
               /\ calls[1].err = Error_MalformedPacket

\* the BundleVisitor calls that found bytes remaining while in state TimeTag:
\* the attempts to read the time tag
TimeTagAttempts ==
    {k \in 1..Len(bcalls) : bcalls[k].state0 = "TimeTag" /\ bcalls[k].limit0 > 0}

\* C19: at most one BundleVisitor call attempts the time tag, and it is the
\* first call that finds bytes remaining; once a call has found bytes remaining
\* the state is Elements, every later call that finds bytes remaining yields
\* the Elements field, and each call goes on with the reader where the call
\* before it left it.
C19_TimeTagAttemptedOnce ==
    target = "bundle" =>
        /\ Cardinality(TimeTagAttempts) <= 1
        /\ \A k \in TimeTagAttempts : \A j \in 1..(k - 1) : bcalls[j].limit0 = 0
        /\ \A j \in 1..Len(bcalls) : \A k \in (j + 1)..Len(bcalls) :
              (bcalls[j].limit0 > 0 /\ bcalls[k].limit0 > 0) =>
                  /\ bcalls[k].state0 = "Elements"
                  /\ bcalls[k].field = "Elements"
                  /\ bcalls[k].ret \in {"Some", "Err"}
        /\ ((\E j \in 1..Len(bcalls) : bcalls[j].limit0 > 0) \/ bpc # "seq") =>
              bstate = "Elements"
        /\ \A k \in 1..(Len(bcalls) - 1) : bcalls[k + 1].limit0 = bcalls[k].limit1

\* the time-tag read has failed with bytes left in the region, and the next
\* call has yielded the Elements field
C19_Witness ==
    /\ Len(bcalls) >= 2
    /\ bcalls[1].state0 = "TimeTag"
    /\ bcalls[1].ret = "Err"
    /\ bcalls[2].limit0 > 0
    /\ bcalls[2].field = "Elements"

====
